---- MODULE Spec2Model ----
(***************************************************************************)
(* The Chakra client (src/src/chakra.ts): session token, login, the        *)
(* ensureAuthenticated retry wrapper, execute and the push pipeline.       *)
(*                                                                         *)
(* Strings are sequences of one-character strings.  A remote call is one   *)
(* step that issues the request and draws the transport's answer: an HTTP  *)
(* status, or 0 when no response arrived (network failure).  login is two  *)
(* steps (request sent, answer received) because the token is read before  *)
(* the request and written after the answer.                               *)
(***************************************************************************)
EXTENDS Integers, Sequences, FiniteSets, TLC

VARIABLES token, calls

vars == <<token, calls>>

\* ------------------------------------------------------------- bounds
MaxNameLen == 3
MaxQueryLen == 2
MaxParams == 1

\* the queries and parameter lists of the rewrite's own specification
MaxRewriteLen == 4
MaxRewriteParams == 2

\* ---------------------------------------------------------- constants
TOKEN_PREFIX == <<"D", "D", "B", "_">>

maxAttemptsTwo == 3 - 1
maxAttemptsFour == 3 + 1
maxAttempts == 3

DefaultPrefix == <<"d", "u", "c", "k", "d", "b", ".", "m", "a", "i", "n", ".">>

\* null (the token before any login) and the values `!this.token` takes as absent
Null == <<"null">>

FalsyNever(v) == FALSE
Falsy(v) == v = Null \/ v = <<>>

Slots == {1, 2}

\* The transport's answers: 200 is any 2xx, 0 is a failure without response,
\* 500 any other status; 409 (conflict) is what the database endpoint answers
\* for a database that exists.
Statuses == {200, 401, 500, 0}
DatabaseStatuses == Statuses \cup {409}

\* no request has been answered yet
NoAnswer == 0 - 1

\* What the authentication endpoint may put in res.data.token; <<"undefined">>
\* stands for a response body without a token field.
Undefined == <<"undefined">>
ServerTokens ==
  { <<"D", "D", "B", "_", "1">>, <<"D", "D", "B", "_", "2">>,
    <<"D", "D", "B">>, <<"d", "d", "b", "_", "1">>, <<"x", "D", "D", "B", "_">>,
    Undefined }

\* The query endpoint's answers {columns, rows}.
Responses ==
  { [columns |-> <<"id">>, rows |-> <<>>],
    [columns |-> <<"id", "n">>, rows |-> << <<"v", "w">> >>] }

Keys == {"k1", "k2"}

NameChars == {"t", "."}
QueryChars == {"$", "0", "1", "2", "x"}
ParamValues == {"p", "q"}
Digits == {"0", "1", "2"}

SeqsUpTo(S, n) == UNION { [1..k -> S] : k \in 0..n }

TableNames == SeqsUpTo(NameChars, MaxNameLen)
Queries == SeqsUpTo(QueryChars, MaxQueryLen)
ParamLists == SeqsUpTo(ParamValues, MaxParams)
PkLists == { <<>>, <<"id">> }
RewriteQueries == SeqsUpTo(QueryChars, MaxRewriteLen)
RewriteParamLists == SeqsUpTo(ParamValues, MaxRewriteParams)

\* ------------------------------------------------------------- errors
NoErr == [type |-> "none", status |-> 0]
PlainError == [type |-> "Error", status |-> 0]
TypeError == [type |-> "TypeError", status |-> 0]
AxiosError(s) == [type |-> "AxiosError", status |-> s]
ChakraAPIError(s) == [type |-> "ChakraAPIError", status |-> s]
ChakraAuthError == [type |-> "ChakraAuthError", status |-> 0]

\* handleApiError: an axios error that carries a response becomes a
\* ChakraAPIError wrapping that response; anything else is rethrown as it is.
handleApiError(err) ==
  IF err.type = "AxiosError" /\ err.status # 0
  THEN ChakraAPIError(err.status)
  ELSE err

\* ensureAuthenticated's classification of a caught error.
isAuthErrorAnyFailure(err) == TRUE
isAuthError(err) ==
  \/ err.type = "AxiosError" /\ err.status = 401
  \/ err.type \in {"ChakraAPIError", "ChakraAuthError"} /\ err.status = 401

\* ------------------------------------------------------------ strings
\* String.prototype.startsWith
StartsWithAlways(s, p) == TRUE
StartsWith(s, p) ==
  /\ Len(s) >= Len(p)
  /\ SubSeq(s, 1, Len(p)) = p

\* String.prototype.split('.'): the segments between the dots.
RECURSIVE SplitFrom(_, _, _)
SplitFrom(s, i, cur) ==
  IF i > Len(s) THEN <<cur>>
  ELSE IF s[i] = "." THEN <<cur>> \o SplitFrom(s, i + 1, <<>>)
  ELSE SplitFrom(s, i + 1, Append(cur, s[i]))

Split(s) == SplitFrom(s, 1, <<>>)

\* ---------------------------------------------------- positional params
IsDigit(ch) == ch \in Digits

DigitValue(ch) == CASE ch = "0" -> 0 [] ch = "1" -> 1 [] ch = "2" -> 2

\* parseInt(g1, 10) on a run of digits
RECURSIVE ParseInt(_)
ParseInt(ds) ==
  IF ds = <<>> THEN 0
  ELSE 10 * ParseInt(SubSeq(ds, 1, Len(ds) - 1)) + DigitValue(ds[Len(ds)])

\* the length of the run of digits that starts at position i
RECURSIVE DigitRun(_, _)
DigitRun(q, i) ==
  IF i <= Len(q) /\ IsDigit(q[i]) THEN 1 + DigitRun(q, i + 1) ELSE 0

\* /\$\d+/.test(query)
queryHasPositionalParameters(q) ==
  \E i \in 1..Len(q) : q[i] = "$" /\ DigitRun(q, i + 1) > 0

\* the replacement without a range check: parameters[idx] of an idx outside
\* the array is undefined
RECURSIVE ReplaceFromUnchecked(_, _, _, _, _)
ReplaceFromUnchecked(q, i, ps, accQ, accP) ==
  IF i > Len(q) THEN [ok |-> TRUE, query |-> accQ, parameters |-> accP]
  ELSE IF q[i] = "$" /\ DigitRun(q, i + 1) > 0
  THEN LET n == DigitRun(q, i + 1)
           idx == ParseInt(SubSeq(q, i + 1, i + n)) - 1
       IN ReplaceFromUnchecked(q, i + n + 1, ps, Append(accQ, "?"),
            Append(accP, IF idx < 0 \/ idx >= Len(ps) THEN "undefined"
                         ELSE ps[idx + 1]))
  ELSE ReplaceFromUnchecked(q, i + 1, ps, Append(accQ, q[i]), accP)

\* query.replace(/\$(\d+)/g, callback): left to right, each match becomes "?"
\* and pushes parameters[idx]; an idx outside the array throws.
RECURSIVE ReplaceFrom(_, _, _, _, _)
ReplaceFrom(q, i, ps, accQ, accP) ==
  IF i > Len(q) THEN [ok |-> TRUE, query |-> accQ, parameters |-> accP]
  ELSE IF q[i] = "$" /\ DigitRun(q, i + 1) > 0
  THEN LET n == DigitRun(q, i + 1)
           idx == ParseInt(SubSeq(q, i + 1, i + n)) - 1
       IN IF idx < 0 \/ idx >= Len(ps)
          THEN [ok |-> FALSE, query |-> q, parameters |-> ps]
          ELSE ReplaceFrom(q, i + n + 1, ps, Append(accQ, "?"),
                           Append(accP, ps[idx + 1]))
  ELSE ReplaceFrom(q, i + 1, ps, Append(accQ, q[i]), accP)

\* the rewritten text with the caller's parameter list passed through
replaceKeepingParameters(q, ps) ==
  [ReplaceFrom(q, 1, ps, <<>>, <<>>) EXCEPT !.parameters = ps]

replacePositionalParameters(q, ps) == ReplaceFrom(q, 1, ps, <<>>, <<>>)

\* rows.map(row => zip(columns, row)): one record per row, keyed by column.
ZipRows(resp) ==
  [i \in 1..Len(resp.rows) |->
     [j \in 1..Len(resp.columns) |-> <<resp.columns[j], resp.rows[i][j]>>]]

NoData == [columns |-> <<>>, rows |-> <<>>]

\* -------------------------------------------------------------- state
\* One record per public call in flight (login, execute or push).
\*   pc         where the call stands
\*   attempt    ensureAuthenticated's counter
\*   loginFrom  which call site awaits the login in flight
\*   trace      the logins requested and operations invoked by this call
\*   reqs       the requests issued by the latest attempt of the operation
\*              (forgotten once the login that follows it is answered)
\*   last       the transport's answer to the latest request of the call
\*   got        res.data.token of the latest authentication response
\*   resp       res.data of the latest query response
\*   err, failedAt, ret   how the call ended
NewCall ==
  [kind |-> "none", pc |-> "idle", attempt |-> 0, loginFrom |-> "none",
   err |-> NoErr, failedAt |-> "none", ret |-> <<>>,
   trace |-> <<>>, reqs |-> <<>>, last |-> NoAnswer, got |-> Null,
   resp |-> NoData, nImportOk |-> 0,
   tmpFile |-> FALSE, fullName |-> <<>>, key |-> "none",
   tableName |-> <<>>, createIfMissing |-> FALSE, replaceIfExists |-> FALSE,
   dedupeOnAppend |-> FALSE, primaryKeyColumns |-> <<>>, empty |-> FALSE,
   query |-> <<>>, parameters |-> <<>>]

Request(ep, name, key, pk, sql, params) ==
  [ep |-> ep, name |-> name, key |-> key, pk |-> pk, sql |-> sql,
   params |-> params]

\* A fresh client: no token, no call in flight.  Under Spec the caller awaits
\* each call before the next one, so only slot 1 ever holds a call.
Init ==
  /\ token = Null
  /\ calls = [c \in Slots |-> IF c = 1 THEN NewCall
                                       ELSE [NewCall EXCEPT !.pc = "off"]]

Set(c, cl) == calls' = [calls EXCEPT ![c] = cl]

\* The call ends: resolved (err = NoErr) or rejected with err.
Done(cl, err, stage, ret) ==
  [cl EXCEPT !.pc = "done", !.err = err, !.failedAt = stage, !.ret = ret]

\* login() is entered and fetchToken posts the credentials.
LoginSend(cl, from) ==
  [cl EXCEPT !.pc = "login_wait", !.loginFrom = from,
             !.trace = Append(@, "login")]

\* the catch block of ensureAuthenticated
CaughtRetryWithoutLogin(cl, err, stage) ==
  LET cl1 == [cl EXCEPT !.attempt = @ + 1]
  IN IF isAuthError(err)
     THEN [cl1 EXCEPT !.pc = "ea_check"]
     ELSE Done(cl1, err, stage, <<>>)

Caught(cl, err, stage) ==
  LET cl1 == [cl EXCEPT !.attempt = @ + 1]
  IN IF isAuthError(err)
     THEN LoginSend(cl1, "retry")
     ELSE Done(cl1, err, stage, <<>>)

\* ------------------------------------------------------------ actions
StartLogin(c) ==
  /\ calls[c].pc = "idle"
  /\ Set(c, LoginSend([NewCall EXCEPT !.kind = "login"], "public"))
  /\ UNCHANGED token

StartExecute(c) ==
  /\ calls[c].pc = "idle"
  /\ \E q \in Queries, ps \in ParamLists :
       Set(c, [NewCall EXCEPT !.kind = "execute", !.pc = "ea_check",
                              !.query = q, !.parameters = ps])
  /\ UNCHANGED token

StartPush(c) ==
  /\ calls[c].pc = "idle"
  /\ \E n \in TableNames, cim \in BOOLEAN, rie \in BOOLEAN, doa \in BOOLEAN,
        pk \in PkLists, e \in BOOLEAN :
       /\ (~doa => pk = <<>>)
       /\ Set(c, [NewCall EXCEPT !.kind = "push", !.pc = "ea_check",
                                 !.tableName = n, !.createIfMissing = cim,
                                 !.replaceIfExists = rie, !.dedupeOnAppend = doa,
                                 !.primaryKeyColumns = pk, !.empty = e])
  /\ UNCHANGED token

\* login(): the answer to the authentication request arrives.
LoginOutcome(s, t) ==
  IF s # 200 THEN handleApiError(AxiosError(s))
  ELSE IF t = Undefined THEN TypeError
  ELSE IF ~StartsWith(t, TOKEN_PREFIX) THEN PlainError
  ELSE NoErr

LoginRecv(c) ==
  /\ calls[c].pc = "login_wait"
  /\ \E s \in Statuses, t \in ServerTokens :
       LET err == LoginOutcome(s, t)
           cl == [calls[c] EXCEPT !.last = s,
                                  !.got = IF s = 200 THEN t ELSE Null,
                                  !.reqs = <<>>, !.key = "none",
                                  !.fullName = <<>>]
       IN IF err # NoErr
          THEN /\ Set(c, Done(cl, err, "login", <<>>))
               /\ UNCHANGED token
          ELSE /\ token' = t
               /\ Set(c, CASE cl.loginFrom = "public" -> Done(cl, NoErr, "none", <<>>)
                            [] cl.loginFrom = "pre" -> [cl EXCEPT !.pc = "op"]
                            [] cl.loginFrom = "retry" -> [cl EXCEPT !.pc = "ea_check"])

\* ensureAuthenticated: the loop head and the token check before an attempt.
EaCheck(c) ==
  /\ calls[c].pc = "ea_check"
  /\ LET cl == calls[c]
     IN Set(c, IF cl.attempt >= maxAttempts
               THEN Done(cl, ChakraAuthError, "exhausted", <<>>)
               ELSE IF Falsy(token) THEN LoginSend(cl, "pre")
               ELSE [cl EXCEPT !.pc = "op"])
  /\ UNCHANGED token

\* authenticated_execute, invoked by the wrapper: one attempt.
Execute(c) ==
  /\ calls[c].pc = "op"
  /\ calls[c].kind = "execute"
  /\ LET cl == [calls[c] EXCEPT !.trace = Append(@, "op"), !.reqs = <<>>,
                                !.last = NoAnswer, !.resp = NoData]
         has == queryHasPositionalParameters(cl.query)
         repl == IF has THEN replacePositionalParameters(cl.query, cl.parameters)
                 ELSE [ok |-> TRUE, query |-> cl.query, parameters |-> cl.parameters]
     IN IF Falsy(token)
        THEN Set(c, Caught(cl, handleApiError(PlainError), "token"))
        ELSE IF ~repl.ok
        THEN Set(c, Caught(cl, handleApiError(PlainError), "validate"))
        ELSE \E s \in Statuses, resp \in Responses :
               LET sent == [cl EXCEPT !.last = s, !.reqs = Append(@,
                              Request("query", <<>>, "none", <<>>, repl.query,
                                      repl.parameters))]
               IN Set(c, IF s = 200
                         THEN Done([sent EXCEPT !.resp = resp], NoErr, "none",
                                   ZipRows(resp))
                         ELSE Caught(sent, handleApiError(AxiosError(s)), "query"))
  /\ UNCHANGED token

\* ---------------------------------------------------------------- push
\* lines 281-286: one or three dot-separated segments
SegmentCountOkUpToThree(parts) == Len(parts) <= 3
SegmentCountOk(parts) == Len(parts) = 1 \/ Len(parts) = 3

\* lines 280-289: a bare name gets the default database and schema
FullName(tableName) ==
  IF Len(Split(tableName)) = 1 THEN DefaultPrefix \o tableName ELSE tableName

\* createDatabaseAndSchema: [databaseName, schemaName] = tableName.split('.')
DatabaseName(fullName) == Split(fullName)[1]
SchemaName(fullName) == Split(fullName)[1] \o <<".">> \o Split(fullName)[2]

\* lines 295, 301: the schema and the table are created
NeedsCreateOnlyIfMissing(cl) == cl.createIfMissing
NeedsCreate(cl) == cl.createIfMissing \/ cl.replaceIfExists

\* line 298: the table is dropped first
NeedsDrop(cl) == cl.replaceIfExists

\* a request of the push attempt, logged with the transport's answer
Sent(cl, ep, name, key, pk, s) ==
  [cl EXCEPT !.last = s,
             !.reqs = Append(@, Request(ep, name, key, pk, <<>>, <<>>))]

\* a failure inside try (line 294), before the temporary file exists:
\* catch (line 353) -> handleApiError -> ensureAuthenticated's catch
FailOuter(cl, err, stage) == Caught(cl, handleApiError(err), stage)

\* a failure inside the inner try (line 306): finally cleanup() first
FailInnerWithoutCleanup(cl, err, stage) ==
  Caught(cl, handleApiError(err), stage)

FailInner(cl, err, stage) ==
  Caught([cl EXCEPT !.tmpFile = FALSE], handleApiError(err), stage)

\* authenticated_push entered by the wrapper: lines 280-292
PushStart(c) ==
  /\ calls[c].pc = "op"
  /\ calls[c].kind = "push"
  /\ LET cl == [calls[c] EXCEPT !.trace = Append(@, "op"), !.reqs = <<>>,
                                !.last = NoAnswer, !.key = "none",
                                !.fullName = FullName(calls[c].tableName)]
     IN Set(c, IF ~SegmentCountOk(Split(cl.tableName))
               THEN Caught([cl EXCEPT !.fullName = <<>>], PlainError, "validate")
               ELSE IF Falsy(token) THEN Caught(cl, PlainError, "token")
               ELSE [cl EXCEPT !.pc = IF NeedsCreate(cl) THEN "db" ELSE "tmp"])
  /\ UNCHANGED token

\* line 167: the database request resolved, or its rejection is swallowed
DatabaseAnswerOkOnlyResolved(s) == s = 200
DatabaseAnswerOk(s) == s = 200 \/ s = 409

\* createDatabaseAndSchema, first request: POST /api/v1/databases
PushDatabase(c) ==
  /\ calls[c].pc = "db"
  /\ \E s \in DatabaseStatuses :
       LET cl == Sent(calls[c], "database", DatabaseName(calls[c].fullName),
                      "none", <<>>, s)
       IN Set(c, IF DatabaseAnswerOk(s)
                 THEN [cl EXCEPT !.pc = "schema"]
                 ELSE FailOuter(cl, handleApiError(AxiosError(s)), "db"))
  /\ UNCHANGED token

\* createDatabaseAndSchema, second request: CREATE SCHEMA IF NOT EXISTS
PushSchema(c) ==
  /\ calls[c].pc = "schema"
  /\ \E s \in Statuses :
       LET cl == Sent(calls[c], "schema", SchemaName(calls[c].fullName),
                      "none", <<>>, s)
       IN Set(c, IF s = 200
                 THEN [cl EXCEPT !.pc = IF NeedsDrop(cl) THEN "drop" ELSE "create"]
                 ELSE FailOuter(cl, AxiosError(s), "schema"))
  /\ UNCHANGED token

\* replaceExistingTable: DROP TABLE IF EXISTS
PushDrop(c) ==
  /\ calls[c].pc = "drop"
  /\ \E s \in Statuses :
       LET cl == Sent(calls[c], "drop", calls[c].fullName, "none", <<>>, s)
       IN Set(c, IF s = 200
                 THEN [cl EXCEPT !.pc = "create"]
                 ELSE FailOuter(cl, AxiosError(s), "drop"))
  /\ UNCHANGED token

\* createTable: Object.entries(data[0]) throws on an empty record set,
\* otherwise CREATE TABLE IF NOT EXISTS is sent
PushCreateTable(c) ==
  /\ calls[c].pc = "create"
  /\ IF calls[c].empty
     THEN Set(c, FailOuter(calls[c], TypeError, "create"))
     ELSE \E s \in Statuses :
            LET cl == Sent(calls[c], "create", calls[c].fullName, "none", <<>>, s)
            IN Set(c, IF s = 200
                      THEN [cl EXCEPT !.pc = "tmp"]
                      ELSE FailOuter(cl, AxiosError(s), "create"))
  /\ UNCHANGED token

\* tmp.file(): the temporary file is created, or the file system refuses
PushTmpFile(c) ==
  /\ calls[c].pc = "tmp"
  /\ \E ok \in BOOLEAN :
       Set(c, IF ok
              THEN [calls[c] EXCEPT !.pc = "serialize", !.tmpFile = TRUE]
              ELSE FailOuter(calls[c], PlainError, "tmp"))
  /\ UNCHANGED token

\* lines 307-325: the schema from data[0], the rows written, the file closed
PushSerialize(c) ==
  /\ calls[c].pc = "serialize"
  /\ IF calls[c].empty
     THEN Set(c, FailInner(calls[c], TypeError, "serialize"))
     ELSE \E ok \in BOOLEAN :
            Set(c, IF ok
                   THEN [calls[c] EXCEPT !.pc = "presign"]
                   ELSE FailInner(calls[c], PlainError, "serialize"))
  /\ UNCHANGED token

\* requestPresignedUploadUrl: GET /api/v1/presigned-upload
PushPresign(c) ==
  /\ calls[c].pc = "presign"
  /\ \E s \in Statuses, k \in Keys :
       LET cl == Sent(calls[c], "presign", calls[c].fullName, "none", <<>>, s)
       IN Set(c, IF s = 200
                 THEN [cl EXCEPT !.pc = "upload", !.key = k]
                 ELSE FailInner(cl, AxiosError(s), "presign"))
  /\ UNCHANGED token

\* the PUT's outcome not awaited: the import follows whatever the answer
PushUploadIgnoringFailure(c) ==
  /\ calls[c].pc = "upload"
  /\ \E s \in Statuses :
       Set(c, [Sent(calls[c], "upload", <<>>, calls[c].key, <<>>, s)
                 EXCEPT !.pc = "import"])
  /\ UNCHANGED token

\* uploadParquetUsingPresignedUrl: PUT to the presigned URL
PushUpload(c) ==
  /\ calls[c].pc = "upload"
  /\ \E s \in Statuses :
       LET cl == Sent(calls[c], "upload", <<>>, calls[c].key, <<>>, s)
       IN Set(c, IF s = 200
                 THEN [cl EXCEPT !.pc = "import"]
                 ELSE FailInner(cl, AxiosError(s), "upload"))
  /\ UNCHANGED token

\* line 335: the import route taken by the attempt
ImportEndpointByKeyColumns(cl) ==
  IF cl.primaryKeyColumns # <<>> THEN "import_dedupe" ELSE "import"
ImportEndpoint(cl) ==
  IF cl.dedupeOnAppend THEN "import_dedupe" ELSE "import"

\* lines 335-343: the dedup import or the plain import
PushImport(c) ==
  /\ calls[c].pc = "import"
  /\ \E s \in Statuses :
       LET ep == ImportEndpoint(calls[c])
           cl == Sent(calls[c], ep, calls[c].fullName, calls[c].key,
                      IF ep = "import_dedupe"
                      THEN calls[c].primaryKeyColumns ELSE <<>>, s)
       IN Set(c, IF s = 200
                 THEN [cl EXCEPT !.pc = "delete", !.nImportOk = @ + 1]
                 ELSE FailInner(cl, AxiosError(s), "import"))
  /\ UNCHANGED token

\* deleteFileFromS3, then finally cleanup() and the push resolves
PushDelete(c) ==
  /\ calls[c].pc = "delete"
  /\ \E s \in Statuses :
       LET cl == Sent(calls[c], "delete", <<>>, calls[c].key, <<>>, s)
       IN Set(c, IF s = 200
                 THEN Done([cl EXCEPT !.tmpFile = FALSE], NoErr, "none", <<>>)
                 ELSE FailInner(cl, AxiosError(s), "delete"))
  /\ UNCHANGED token

\* The caller has the call's outcome; the client is free for the next call.
Settle(c) ==
  /\ calls[c].pc = "done"
  /\ Set(c, NewCall)
  /\ UNCHANGED token

Next ==
  \E c \in Slots :
    \/ StartLogin(c)
    \/ StartExecute(c)
    \/ StartPush(c)
    \/ LoginRecv(c)
    \/ EaCheck(c)
    \/ Execute(c)
    \/ PushStart(c)
    \/ PushDatabase(c)
    \/ PushSchema(c)
    \/ PushDrop(c)
    \/ PushCreateTable(c)
    \/ PushTmpFile(c)
    \/ PushSerialize(c)
    \/ PushPresign(c)
    \/ PushUpload(c)
    \/ PushImport(c)
    \/ PushDelete(c)
    \/ Settle(c)

Spec == Init /\ [][Next]_vars

\* ============================================================== claims
\* how often x occurs in the sequence s
Count(s, x) == Cardinality({i \in 1..Len(s) : s[i] = x})

\* the logins a call requested after an attempt of its operation had failed
RetryLogins(cl) ==
  Count(cl.trace, "login")
    - (IF cl.trace # <<>> /\ cl.trace[1] = "login" THEN 1 ELSE 0)

\* the positions of a call inside the wrapped operation
OpPcs ==
  {"op", "db", "schema", "drop", "create", "tmp", "serialize", "presign",
   "upload", "import", "delete"}

\* this step ends an attempt of the wrapped operation with a failure
AttemptFails(a, b) ==
  /\ a.pc \in OpPcs
  /\ b.pc = "login_wait" \/ (b.pc = "done" /\ b.err # NoErr)

\* this step issued a request
Issued(a, b) == Len(b.reqs) > (IF a.pc = "op" THEN 0 ELSE Len(a.reqs))

\* C1: an attempt of the wrapped operation that fails with anything but an
\* HTTP 401 ends the call at once with that error: no login is requested,
\* the operation has been invoked once per counted attempt (once, when the
\* first attempt fails) and the token is what it was.
C1_NonAuthFailurePropagates ==
  [][\A c \in Slots :
       LET a == calls[c]
           b == calls'[c]
       IN (AttemptFails(a, b) /\ ~(Issued(a, b) /\ b.last = 401)) =>
            /\ b.pc = "done"
            /\ b.err # NoErr
            /\ b.err.status # 401
            /\ (Issued(a, b) => b.err.status = b.last)
            /\ Count(b.trace, "login") = Count(a.trace, "login")
            /\ Count(b.trace, "op") = a.attempt + 1
            /\ token' = token]_vars

C1_Witness ==
  \E c \in Slots :
    /\ calls[c].pc = "done"
    /\ calls[c].kind = "push"
    /\ calls[c].failedAt = "import"
    /\ calls[c].err = ChakraAPIError(500)
    /\ calls[c].trace = <<"op">>

\* C2: a push or execute of a client that holds a token, whose operation
\* fails with 401 once and then succeeds, has invoked the operation twice
\* with exactly one login in between, and an execute returns the records of
\* the second attempt's response.
C2_OneReloginBetweenTwoAttempts ==
  \A c \in Slots :
    LET cl == calls[c]
    IN (/\ cl.kind \in {"push", "execute"}
        /\ cl.pc = "done"
        /\ cl.err = NoErr
        /\ cl.attempt = 1
        /\ cl.trace[1] = "op") =>
         /\ cl.trace = <<"op", "login", "op">>
         /\ cl.kind = "execute" =>
              /\ Len(cl.ret) = Len(cl.resp.rows)
              /\ \A i \in 1..Len(cl.ret) : \A j \in 1..Len(cl.resp.columns) :
                   cl.ret[i][j] = <<cl.resp.columns[j], cl.resp.rows[i][j]>>

C2_Witness ==
  \E c \in Slots :
    /\ calls[c].kind = "execute"
    /\ calls[c].pc = "done"
    /\ calls[c].err = NoErr
    /\ calls[c].trace = <<"op", "login", "op">>
    /\ calls[c].ret # <<>>

\* C3: the operation is never invoked a fourth time in one call, and a call
\* whose three attempts each failed with 401 and whose logins all succeeded
\* has invoked it exactly three times and ends with ChakraAuthError.
C3_ThreeAttemptsThenAuthError ==
  \A c \in Slots :
    LET cl == calls[c]
    IN /\ Count(cl.trace, "op") <= 3
       /\ (cl.pc = "done" /\ RetryLogins(cl) = 3 /\ cl.failedAt # "login") =>
            /\ Count(cl.trace, "op") = 3
            /\ cl.err = ChakraAuthError

C3_Witness ==
  \E c \in Slots :
    /\ calls[c].pc = "done"
    /\ calls[c].err = ChakraAuthError
    /\ calls[c].trace = <<"op", "login", "op", "login", "op", "login">>

\* C4 as claimed: one call never requests more than one re-login.
C4_AtMostOneRelogin ==
  \A c \in Slots : RetryLogins(calls[c]) <= 1

\* C4 as amended: every 401 of the wrapped operation is followed by one
\* re-login, so one call requests up to three; logins and attempts
\* alternate; the budget is exhausted by the third consecutive 401, not by
\* the second, and then the call ends with ChakraAuthError.
C4_OneReloginPerFailedAttempt ==
  \A c \in Slots :
    LET cl == calls[c]
    IN /\ RetryLogins(cl) <= 3
       /\ \A i \in 1..(Len(cl.trace) - 1) : cl.trace[i] # cl.trace[i + 1]
       /\ cl.kind \in {"push", "execute"} =>
            RetryLogins(cl) \in {cl.attempt, cl.attempt - 1}
       /\ cl.failedAt = "exhausted" =>
            /\ RetryLogins(cl) = 3
            /\ cl.err = ChakraAuthError

C4_Witness ==
  \E c \in Slots :
    /\ calls[c].pc \in OpPcs \ {"op"}
    /\ calls[c].attempt = 2
    /\ RetryLogins(calls[c]) = 2

\* C5: a login of a client that holds no token sets the token exactly when
\* the authentication request succeeds and the returned token starts with
\* "DDB_"; the token set is the returned one, and otherwise the token stays
\* unset and the login fails.
C5_LoginSetsTokenIffPrefixed ==
  [][\A c \in Slots :
       LET b == calls'[c]
       IN (calls[c].pc = "login_wait" /\ b.pc # "login_wait" /\ token = Null) =>
            /\ token' # Null <=>
                 /\ b.last = 200
                 /\ Len(b.got) >= 4
                 /\ <<b.got[1], b.got[2], b.got[3], b.got[4]>> = <<"D", "D", "B", "_">>
            /\ token' # Null => token' = b.got
            /\ token' = Null => (b.pc = "done" /\ b.err # NoErr)]_vars

C5_Witness ==
  \E c \in Slots :
    /\ calls[c].kind = "login"
    /\ calls[c].pc = "done"
    /\ calls[c].last = 200
    /\ calls[c].got = <<"D", "D", "B">>
    /\ calls[c].err # NoErr
    /\ token = Null

\* C6: a login answered with a token that lacks the prefix fails with a
\* ChakraAuthError, and a login whose request is answered with a non-2xx
\* status fails with a ChakraAPIError wrapping that response.
C6_LoginFailureKinds ==
  \A c \in Slots :
    LET cl == calls[c]
    IN (cl.pc = "done" /\ cl.failedAt = "login") =>
         /\ (cl.last = 200 /\ cl.got # Undefined) => cl.err.type = "ChakraAuthError"
         /\ cl.last \notin {200, 0} => cl.err = ChakraAPIError(cl.last)

\* the dot-separated segments of a name: one more than its dots
Segments(n) == Count(n, ".") + 1

IsPrefix(p, s) == Len(p) <= Len(s) /\ SubSeq(s, 1, Len(p)) = p

\* the name C7 expects in a push's requests
ExpectedName(n) ==
  IF Segments(n) = 1
  THEN <<"d", "u", "c", "k", "d", "b", ".", "m", "a", "i", "n", ".">> \o n
  ELSE n

\* C7: a push whose table name has neither one nor three segments issues no
\* request in its operation, which is invoked once and fails in validation;
\* a one-segment name T is used as duckdb.main.T and a three-segment name
\* unchanged in every lifecycle and import request (the database request
\* carries its first segment, the schema statement its first two).
C7_TableNameShape ==
  \A c \in Slots :
    LET cl == calls[c]
        n == cl.tableName
    IN cl.kind = "push" =>
         /\ Segments(n) \notin {1, 3} =>
              /\ cl.reqs = <<>>
              /\ cl.pc \notin OpPcs \ {"op"}
              /\ Count(cl.trace, "op") <= 1
              /\ (cl.pc = "done" /\ cl.failedAt # "login") =>
                   (cl.failedAt = "validate" /\ cl.err = PlainError)
         /\ Segments(n) \in {1, 3} =>
              /\ cl.failedAt # "validate"
              /\ \A i \in 1..Len(cl.reqs) :
                   LET r == cl.reqs[i]
                   IN /\ r.ep \in {"drop", "create", "import", "import_dedupe"} =>
                           r.name = ExpectedName(n)
                      /\ r.ep = "database" =>
                           /\ Count(r.name, ".") = 0
                           /\ IsPrefix(r.name \o <<".">>, ExpectedName(n))
                      /\ r.ep = "schema" =>
                           /\ Count(r.name, ".") = 1
                           /\ IsPrefix(r.name \o <<".">>, ExpectedName(n))

C7_Witness ==
  \E c \in Slots :
    /\ calls[c].kind = "push"
    /\ calls[c].tableName = <<"t">>
    /\ calls[c].pc = "delete"
    /\ \E i \in 1..Len(calls[c].reqs) :
         /\ calls[c].reqs[i].ep = "import"
         /\ calls[c].reqs[i].name =
              <<"d", "u", "c", "k", "d", "b", ".", "m", "a", "i", "n", ".", "t">>

\* C8: a push with a malformed table name, or a call that failed in
\* validation, has requested no login and issued no request.
C8_ValidationBeforeAnyRemoteCall ==
  \A c \in Slots :
    LET cl == calls[c]
    IN (\/ cl.kind = "push" /\ Segments(cl.tableName) \notin {1, 3}
        \/ cl.failedAt = "validate") =>
         /\ Count(cl.trace, "login") = 0
         /\ cl.reqs = <<>>

\* C9: a push with dedupeOnAppend and no primary key columns never resolves,
\* and the dedup import is never requested with an empty column list.
C9_DedupRequiresKeyColumns ==
  \A c \in Slots :
    LET cl == calls[c]
    IN /\ \A i \in 1..Len(cl.reqs) :
            cl.reqs[i].ep = "import_dedupe" => cl.reqs[i].pk # <<>>
       /\ (cl.kind = "push" /\ cl.dedupeOnAppend /\ cl.primaryKeyColumns = <<>>
            /\ cl.pc = "done") => cl.err # NoErr

\* the lifecycle requests of a call's latest attempt, in the order issued
IsLifecycle(ep) == ep \in {"database", "schema", "drop", "create"}

LifecycleOf(cl) ==
  SelectSeq([i \in 1..Len(cl.reqs) |-> cl.reqs[i].ep], IsLifecycle)

\* what C10 expects them to be: the database request and the schema
\* statement of createDatabaseAndSchema, the drop, the table creation
ExpectedLifecycle(cl) ==
  IF cl.replaceIfExists THEN <<"database", "schema", "drop", "create">>
  ELSE IF cl.createIfMissing THEN <<"database", "schema", "create">>
  ELSE <<>>

StagingPcs == {"tmp", "serialize", "presign", "upload", "import", "delete"}

\* C10 as claimed: an attempt that is past its lifecycle stage, or has ended,
\* without a request answered with a failure has issued the lifecycle
\* requests its options determine.
C10_LifecycleByOptionsAlone ==
  \A c \in Slots :
    LET cl == calls[c]
    IN (/\ cl.kind = "push"
        /\ \/ cl.pc \in StagingPcs
           \/ /\ cl.pc = "done"
              /\ cl.failedAt \in {"none", "db", "schema", "drop", "create"} \cup StagingPcs
              /\ cl.last \in {NoAnswer, 200, 409}) =>
         LifecycleOf(cl) = ExpectedLifecycle(cl)

\* C10 as amended: an attempt that has reached staging (which an empty
\* record set never does when a table is to be created) has issued the
\* lifecycle requests its options determine, all of them before staging;
\* a drop is issued only under replaceIfExists and before the table creation.
C10_LifecycleOnceStagingReached ==
  \A c \in Slots :
    LET cl == calls[c]
    IN cl.kind = "push" =>
         /\ (\/ cl.pc \in StagingPcs
             \/ cl.pc = "done" /\ (cl.failedAt \in StagingPcs \/ cl.err = NoErr)) =>
              /\ LifecycleOf(cl) = ExpectedLifecycle(cl)
              /\ \A i \in 1..Len(cl.reqs) :
                   IsLifecycle(cl.reqs[i].ep) <=> i <= Len(ExpectedLifecycle(cl))
         /\ \A i \in 1..Len(cl.reqs) :
              /\ cl.reqs[i].ep = "drop" => cl.replaceIfExists
              /\ (cl.reqs[i].ep = "create" /\ cl.replaceIfExists) =>
                   \E j \in 1..(i - 1) : cl.reqs[j].ep = "drop"

C10_Witness ==
  \E c \in Slots :
    /\ calls[c].kind = "push"
    /\ calls[c].pc = "presign"
    /\ calls[c].replaceIfExists
    /\ ~calls[c].createIfMissing
    /\ LifecycleOf(calls[c]) = <<"database", "schema", "drop", "create">>

\* ------------------------------------------------------------ staging
\* the import requests of a call's latest attempt
ImportEps == {"import", "import_dedupe"}

ImportsOf(cl) == {i \in 1..Len(cl.reqs) : cl.reqs[i].ep \in ImportEps}

\* the stages that consist of one request to a remote service
RemoteStages ==
  {"db", "schema", "drop", "presign", "upload", "import", "delete"}

\* C11: a push attempt issues at most one import request, and exactly one
\* once it is past its import stage; the request is the dedup import, with
\* the caller's key columns and the staged key, exactly when dedupeOnAppend
\* is set, and the plain import otherwise, whatever the earlier calls were;
\* a push ends in a remote stage's failure only on a failing answer.
C11_OneImportByDedupeOnAppend ==
  \A c \in Slots :
    LET cl == calls[c]
    IN cl.kind = "push" =>
         /\ Cardinality(ImportsOf(cl)) <= 1
         /\ (\/ cl.pc = "delete"
             \/ cl.pc = "done" /\ (cl.err = NoErr \/ cl.failedAt \in {"import", "delete"}))
              => Cardinality(ImportsOf(cl)) = 1
         /\ \A i \in ImportsOf(cl) :
              /\ cl.reqs[i].ep = "import_dedupe" <=> cl.dedupeOnAppend
              /\ cl.reqs[i].ep = "import" <=> ~cl.dedupeOnAppend
              /\ cl.reqs[i].key = cl.key
              /\ cl.key \in Keys
              /\ cl.reqs[i].name = cl.fullName
              /\ cl.dedupeOnAppend => cl.reqs[i].pk = cl.primaryKeyColumns
         /\ (cl.pc = "done" /\ cl.err # NoErr /\ cl.failedAt \in RemoteStages)
              => cl.last # 200

\* a dedup push on a client that already held its token has resolved
C11_Witness ==
  \E c \in Slots :
    /\ calls[c].kind = "push"
    /\ calls[c].pc = "done"
    /\ calls[c].err = NoErr
    /\ calls[c].trace = <<"op">>
    /\ calls[c].dedupeOnAppend
    /\ \E i \in ImportsOf(calls[c]) :
         /\ calls[c].reqs[i].ep = "import_dedupe"
         /\ calls[c].reqs[i].pk = <<"id">>

\* C12 as claimed: a push that has ended after an upload of its latest
\* attempt succeeded has requested the deletion of the uploaded key.
C12_StagedObjectDeleteRequested ==
  \A c \in Slots :
    LET cl == calls[c]
    IN (cl.kind = "push" /\ cl.pc = "done") =>
         \A i \in 1..Len(cl.reqs) :
           (cl.reqs[i].ep = "upload" /\ i < Len(cl.reqs)) =>
             \E j \in 1..Len(cl.reqs) :
               cl.reqs[j].ep = "delete" /\ cl.reqs[j].key = cl.reqs[i].key

C14_UploadFailureNotRetried ==
  \A c \in Slots :
    LET cl == calls[c]
    IN (cl.kind = "push" /\ cl.pc = "login_wait" /\ cl.loginFrom = "retry"
        /\ cl.reqs # <<>>) =>
         cl.reqs[Len(cl.reqs)].ep # "upload"

\* ------------------------------------------------- the rewrite of execute
\* A client that holds a token enters authenticated_execute with a query and
\* a parameter list; the one step is the attempt of the operation.
InitRewrite ==
  /\ token = <<"D", "D", "B", "_", "1">>
  /\ \E q \in RewriteQueries, ps \in RewriteParamLists :
       calls = [c \in Slots |->
                  IF c = 1
                  THEN [NewCall EXCEPT !.kind = "execute", !.pc = "op",
                                       !.query = q, !.parameters = ps]
                  ELSE [NewCall EXCEPT !.pc = "off"]]

NextRewrite == \E c \in Slots : Execute(c)

SpecRewrite == InitRewrite /\ [][NextRewrite]_vars

\* where the placeholders of a query start: a "$" followed by a digit
PlaceholderStarts(q) ==
  {i \in 1..Len(q) : q[i] = "$" /\ i < Len(q) /\ q[i + 1] \in Digits}

\* position i is one of the digits of a placeholder
InPlaceholderDigits(q, i) ==
  /\ q[i] \in Digits
  /\ \E s \in PlaceholderStarts(q) :
       s < i /\ \A j \in (s + 1)..i : q[j] \in Digits

KeptPositions(q) == {i \in 1..Len(q) : ~InPlaceholderDigits(q, i)}

\* the n-th smallest element of a set of positions
NthOf(S, n) == CHOOSE i \in S : Cardinality({j \in S : j <= i}) = n

\* the last digit of the placeholder that starts at s
PlaceholderEnd(q, s) ==
  CHOOSE e \in (s + 1)..Len(q) :
    /\ \A j \in (s + 1)..e : q[j] \in Digits
    /\ e = Len(q) \/ q[e + 1] \notin Digits

\* the decimal number written at positions from..to
RECURSIVE DecimalValue(_, _, _)
DecimalValue(q, from, to) ==
  IF from > to THEN 0
  ELSE DigitValue(q[from]) * 10 ^ (to - from) + DecimalValue(q, from + 1, to)

PlaceholderIndex(q, s) == DecimalValue(q, s + 1, PlaceholderEnd(q, s))

AllInRange(q, ps) ==
  \A s \in PlaceholderStarts(q) : PlaceholderIndex(q, s) \in 1..Len(ps)

\* the query with each placeholder replaced by "?", the rest as it was
RewrittenQuery(q) ==
  [m \in 1..Cardinality(KeptPositions(q)) |->
     LET i == NthOf(KeptPositions(q), m)
     IN IF i \in PlaceholderStarts(q) THEN "?" ELSE q[i]]

\* one entry per placeholder occurrence: the parameter it refers to
ReferencedParameters(q, ps) ==
  [m \in 1..Cardinality(PlaceholderStarts(q)) |->
     ps[PlaceholderIndex(q, NthOf(PlaceholderStarts(q), m))]]

\* C15: the request execute sends for a query with placeholders has every
\* placeholder replaced by "?" and the rest of the text unchanged, and its
\* parameter list has one entry per placeholder occurrence, the i-th being
\* the parameter the i-th placeholder refers to; a query without placeholder
\* is sent as it is with its parameters unchanged; a query whose
\* placeholders are all in range is never rejected by the rewrite.
C15_RewriteSendsReferencedParameters ==
  \A c \in Slots :
    LET cl == calls[c]
        q == cl.query
        ps == cl.parameters
    IN cl.kind = "execute" =>
         /\ cl.reqs # <<>> =>
              /\ Len(cl.reqs) = 1
              /\ cl.reqs[1].ep = "query"
              /\ IF PlaceholderStarts(q) = {}
                 THEN cl.reqs[1].sql = q /\ cl.reqs[1].params = ps
                 ELSE /\ AllInRange(q, ps)
                      /\ cl.reqs[1].sql = RewrittenQuery(q)
                      /\ cl.reqs[1].params = ReferencedParameters(q, ps)
         /\ (cl.pc = "done" /\ cl.failedAt = "validate") => ~AllInRange(q, ps)

\* "$2$1" with the parameters p, q was sent as "??" with q, p
C15_Witness ==
  \E c \in Slots :
    /\ calls[c].kind = "execute"
    /\ calls[c].pc = "done"
    /\ calls[c].err = NoErr
    /\ calls[c].query = <<"$", "2", "$", "1">>
    /\ calls[c].parameters = <<"p", "q">>
    /\ calls[c].reqs = <<Request("query", <<>>, "none", <<>>, <<"?", "?">>,
                                 <<"q", "p">>)>>

\* C16: an execute whose query has a placeholder below 1 or above the
\* number of parameters sends no request, its operation is invoked at most
\* once, no login follows the failure, and the call ends with the plain
\* Error of the rewrite (unless its first login had already failed).
C16_BadPlaceholderFailsLocally ==
  \A c \in Slots :
    LET cl == calls[c]
    IN (cl.kind = "execute" /\ ~AllInRange(cl.query, cl.parameters)) =>
         /\ cl.reqs = <<>>
         /\ Count(cl.trace, "op") <= 1
         /\ RetryLogins(cl) = 0
         /\ cl.pc = "done" =>
              \/ cl.failedAt = "login" /\ Count(cl.trace, "op") = 0
              \/ /\ cl.failedAt = "validate"
                 /\ cl.err = PlainError
                 /\ cl.attempt = 1
                 /\ Count(cl.trace, "op") = 1

\* "$2" with one parameter, on a client that held its token
C16_Witness ==
  \E c \in Slots :
    /\ calls[c].kind = "execute"
    /\ calls[c].pc = "done"
    /\ calls[c].query = <<"$", "2">>
    /\ calls[c].parameters = <<"p">>
    /\ calls[c].failedAt = "validate"
    /\ calls[c].trace = <<"op">>

\* ------------------------------------------------- calls in flight together
\* Two calls on one client, neither awaited before the other is made: the
\* first an execute or a push, the second an execute or a login.  The
\* execute is of a query without placeholder, the push is of a non-empty
\* record set to a bare table name that exists already (createIfMissing and
\* replaceIfExists false).
ConcQueries == { <<"x">> }
ConcTableNames == { <<"t">> }

StartExecuteConc(c) ==
  /\ calls[c].pc = "idle"
  /\ \E q \in ConcQueries :
       Set(c, [NewCall EXCEPT !.kind = "execute", !.pc = "ea_check",
                              !.query = q])
  /\ UNCHANGED token

StartPushConc(c) ==
  /\ calls[c].pc = "idle"
  /\ \E n \in ConcTableNames :
       Set(c, [NewCall EXCEPT !.kind = "push", !.pc = "ea_check",
                              !.tableName = n])
  /\ UNCHANGED token

InitConc ==
  /\ token = Null
  /\ calls = [c \in Slots |-> NewCall]

NextConc ==
  \/ StartPushConc(1)
  \/ StartExecuteConc(1)
  \/ StartLogin(2)
  \/ StartExecuteConc(2)
  \/ \E c \in Slots :
       \/ LoginRecv(c)
       \/ EaCheck(c)
       \/ Execute(c)
       \/ PushStart(c)
       \/ PushTmpFile(c)
       \/ PushSerialize(c)
       \/ PushPresign(c)
       \/ PushUpload(c)
       \/ PushImport(c)
       \/ PushDelete(c)
       \/ Settle(c)

SpecConc == InitConc /\ [][NextConc]_vars

\* the token is absent, or a string that begins with DDB_
TokenWellFormed ==
  \/ token = Null
  \/ Len(token) >= 4 /\ SubSeq(token, 1, 4) = <<"D", "D", "B", "_">>

\* C17: whatever calls are made and however their steps interleave, the
\* token is absent or begins with DDB_; a step never makes a token absent;
\* a login that fails, re-logins included, leaves the token as it was.
C17_TokenAbsentOrPrefixed ==
  /\ []TokenWellFormed
  /\ [][/\ token # Null => token' # Null
        /\ \A c \in Slots :
             (/\ calls[c].pc = "login_wait"
              /\ calls'[c].pc = "done"
              /\ calls'[c].err # NoErr) => token' = token]_vars

\* a re-login has failed while the other call is inside its operation, and
\* the token is still held
C17_Witness ==
  \E c, d \in Slots :
    /\ c # d
    /\ calls[c].pc = "done"
    /\ calls[c].failedAt = "login"
    /\ calls[c].loginFrom = "retry"
    /\ calls[d].pc \in OpPcs
    /\ token # Null
    /\ TokenWellFormed

\* C18: a call is inside its operation only while a token is held and never
\* fails for want of one; a call that fails was given a failing answer (to
\* its login, to a request, or a 401 to each of its three attempts) or
\* failed locally while staging; the token only ever changes to the token
\* that a login just answered with success returned.
C18_ConcurrentCallsBothAuthenticate ==
  /\ [](\A c \in Slots :
          LET cl == calls[c]
          IN /\ cl.pc \in OpPcs => token # Null /\ TokenWellFormed
             /\ (cl.pc = "done" /\ cl.err # NoErr) =>
                  \/ /\ cl.failedAt = "login"
                     /\ cl.last # 200 \/ ~StartsWith(cl.got, TOKEN_PREFIX)
                  \/ /\ cl.failedAt = "exhausted"
                     /\ Count(cl.trace, "op") = maxAttempts
                     /\ RetryLogins(cl) = maxAttempts
                  \/ /\ cl.failedAt \in RemoteStages \cup {"query"}
                     /\ cl.last # 200
                  \/ cl.failedAt \in {"tmp", "serialize"})
  /\ [][token' # token =>
          \E c \in Slots :
            /\ calls[c].pc = "login_wait"
            /\ calls'[c].last = 200
            /\ calls'[c].got = token'
            /\ StartsWith(token', TOKEN_PREFIX)]_vars

\* a push and an execute made together on a fresh client: each saw no
\* token and logged in, each then ran its operation once and resolved
C18_Witness ==
  /\ calls[1].kind = "push"
  /\ calls[2].kind = "execute"
  /\ \A c \in Slots :
       /\ calls[c].pc = "done"
       /\ calls[c].err = NoErr
       /\ calls[c].trace = <<"login", "op">>
  /\ token \in ServerTokens

\* ------------------------------------------------------- order of stages
\* the stages of a push attempt in the order of lines 294-345
PcRank(pc) ==
  CASE pc = "op" -> 0 [] pc = "db" -> 1 [] pc = "schema" -> 2
    [] pc = "drop" -> 3 [] pc = "create" -> 4 [] pc = "tmp" -> 5
    [] pc = "serialize" -> 6 [] pc = "presign" -> 7 [] pc = "upload" -> 8
    [] pc = "import" -> 9 [] pc = "delete" -> 10

\* the stage a request belongs to
EpRank(ep) ==
  CASE ep = "database" -> 1 [] ep = "schema" -> 2 [] ep = "drop" -> 3
    [] ep = "create" -> 4 [] ep = "presign" -> 7 [] ep = "upload" -> 8
    [] ep \in ImportEps -> 9 [] ep = "delete" -> 10

LastEp(cl) == cl.reqs[Len(cl.reqs)].ep

\* C19: the requests of a push attempt are issued in the fixed order of the
\* stages, each by the stage the attempt stands at and only after the
\* request before it was answered with success (or, for the database
\* request, with the swallowed 409); the attempt moves forward through the
\* stages only, the local ones (temporary file, serialization) included, and
\* not past a failed one; an upload directly follows the upload-target
\* request, an import the upload, a delete the import, and all three carry
\* the key that the attempt's upload-target request returned.
C19_StagesInOrder ==
  /\ [](\A c \in Slots :
          LET cl == calls[c]
          IN cl.kind = "push" =>
               \A i \in 1..Len(cl.reqs) :
                 /\ \A j \in 1..(i - 1) : EpRank(cl.reqs[j].ep) < EpRank(cl.reqs[i].ep)
                 /\ cl.reqs[i].ep \in {"upload", "delete"} \cup ImportEps =>
                      /\ i > 1
                      /\ EpRank(cl.reqs[i - 1].ep) = EpRank(cl.reqs[i].ep) - 1
                      /\ cl.reqs[i].key = cl.key
                      /\ cl.key \in Keys
                 /\ cl.reqs[i].ep = "schema" =>
                      i > 1 /\ cl.reqs[i - 1].ep = "database")
  /\ [][\A c \in Slots :
          LET a == calls[c]
              b == calls'[c]
          IN (a.kind = "push" /\ a.pc \in OpPcs /\ b # a) =>
               /\ Issued(a, b) =>
                    /\ a.pc # "op"
                    /\ EpRank(LastEp(b)) = PcRank(a.pc)
                    /\ a.reqs # <<>> =>
                         /\ a.last \in {200, 409}
                         /\ a.last = 409 => LastEp(a) = "database"
               /\ b.pc \in OpPcs =>
                    /\ PcRank(b.pc) > PcRank(a.pc)
                    /\ Issued(a, b) => b.last \in {200, 409}
               /\ (Issued(a, b) /\ b.last \notin {200, 409}) =>
                    AttemptFails(a, b)]_vars

\* a replacing push has resolved after all eight requests
C19_Witness ==
  \E c \in Slots :
    /\ calls[c].kind = "push"
    /\ calls[c].pc = "done"
    /\ calls[c].err = NoErr
    /\ [i \in 1..Len(calls[c].reqs) |-> calls[c].reqs[i].ep] =
         <<"database", "schema", "drop", "create", "presign", "upload",
           "import", "delete">>

\* C20: the step of createDatabaseAndSchema that sends the database request
\* goes on to the schema statement when the answer is a success or a 409,
\* and otherwise ends the attempt with that failure (wrapped when it has a
\* response), the database request being the attempt's last; the schema
\* statement is then sent, and only ever directly after the database request.
C20_DatabaseConflictSwallowed ==
  /\ [](\A c \in Slots :
          LET cl == calls[c]
          IN cl.kind = "push" =>
               /\ \A i \in 1..Len(cl.reqs) :
                    cl.reqs[i].ep = "schema" =>
                      i = 2 /\ cl.reqs[1].ep = "database"
               /\ (cl.reqs # <<>> /\ LastEp(cl) = "database"
                   /\ cl.last \notin {200, 409}) =>
                    cl.pc \in {"done", "login_wait"})
  /\ [][\A c \in Slots :
          LET a == calls[c]
              b == calls'[c]
          IN /\ (a.pc = "db" /\ b # a) =>
                  /\ Len(b.reqs) = 1
                  /\ LastEp(b) = "database"
                  /\ IF b.last \in {200, 409}
                     THEN b.pc = "schema"
                     ELSE /\ AttemptFails(a, b)
                          /\ b.pc = "login_wait" <=> b.last = 401
                          /\ b.pc = "done" =>
                               /\ b.failedAt = "db"
                               /\ b.err = IF b.last = 0 THEN AxiosError(0)
                                          ELSE ChakraAPIError(b.last)
             /\ (a.pc = "schema" /\ b # a) =>
                  Len(b.reqs) = 2 /\ LastEp(b) = "schema"]_vars

\* the database exists already: its 409 did not stop the attempt
C20_Witness ==
  \E c \in Slots :
    /\ calls[c].kind = "push"
    /\ calls[c].pc = "schema"
    /\ calls[c].last = 409
    /\ Len(calls[c].reqs) = 1
    /\ calls[c].reqs[1].ep = "database"

\* C21 as claimed: over all the attempts of one push call, at most one
\* import request is answered with success; and once one has been, the call
\* invokes its operation no further time.
C21_AtMostOneSuccessfulImport ==
  \A c \in Slots :
    LET cl == calls[c]
    IN cl.kind = "push" =>
         /\ cl.nImportOk <= 1
         /\ (cl.nImportOk >= 1 /\ cl.pc \in {"login_wait", "ea_check"} \cup OpPcs) =>
              cl.pc = "delete"

====
